---------------------------- MODULE Spec2Model ----------------------------
(***************************************************************************)
(* Coordination layer of bgg-scraper: the lease protocol of GameRepository *)
(* (claimGamesForProcessing / releaseClaimedGames / releaseAllClaimedGames *)
(* / updateGameWithAllDetails), the worker loop of                         *)
(* DetailScraper.scrapeGameDetails, the worker entry point                 *)
(* run-detail-scraper.ts main() and the launcher runParallelScrapers.      *)
(***************************************************************************)
EXTENDS Integers, Sequences, FiniteSets, TLC

(***************************************************************************)
(* Bounds of the model.                                                    *)
(***************************************************************************)
\* number of rows of the game table
NumGames == 3
\* batchSize handed to claimGamesForProcessing by the worker loop (the
\* callers pass 5; the model scales it down together with NumGames)
BatchSize == 2
\* saturation of the per-item attempt counter
MaxAttempts == 2

NULL == "null"

\* RateLimiter: operations submitted in one run, the delay range in clock
\* ticks, and how many ticks the clock is followed
MaxOps == 3
MinDelay == 1
MaxDelay == 2
Horizon == 4

\* worker ids: `worker-${i}` for i in 1..numWorkers, with numWorkers = 2
WorkerName == <<"worker-1", "worker-2">>
Workers == {WorkerName[1], WorkerName[2]}

Ids == 1..NumGames

Min(a, b) == IF a <= b THEN a ELSE b

(***************************************************************************)
(* The game table.  A row carries the lease columns processingBy /         *)
(* processingAt and the part of the payload the pending predicate reads:   *)
(* weight (NULL or set) and whether the game has at least one category,    *)
(* mechanism, family link.                                                 *)
(***************************************************************************)
Payloads == [weight : {NULL, "set"}, cats : BOOLEAN, mechs : BOOLEAN, fams : BOOLEAN]

EmptyPayload == [weight |-> NULL, cats |-> FALSE, mechs |-> FALSE, fams |-> FALSE]
FullPayload == [weight |-> "set", cats |-> TRUE, mechs |-> FALSE, fams |-> FALSE]

\* what the extraction of a worker hands to updateGameWithAllDetails: weight
\* and credits found, or a page that yielded nothing (extractGameDetails leaves
\* weight null, scrapeCreditsPage returns three empty lists on any error)
DetailsSet == {FullPayload, EmptyPayload}

Row(by, at, p) ==
  [processingBy |-> by, processingAt |-> at,
   weight |-> p.weight, cats |-> p.cats, mechs |-> p.mechs, fams |-> p.fams]

\* the where clause shared by findAllWithoutDetails and the claim query:
\* weight null, or no category and no mechanism and no family
NeedsDetails(g) == g.weight = NULL \/ (~g.cats /\ ~g.mechs /\ ~g.fams)

\* variant: the claim query without processingBy: null
AvailableWhere_AnyLease(g) == NeedsDetails(g)

\* the where clause of the claim query
AvailableWhere(g) == g.processingBy = NULL /\ NeedsDetails(g)

AvailableIds(gs) == {i \in DOMAIN gs : AvailableWhere(gs[i])}

\* ascending sequence of the elements of a finite set of integers
RECURSIVE SortedSeq(_)
SortedSeq(S) ==
  IF S = {} THEN <<>>
  ELSE LET m == CHOOSE x \in S : \A y \in S : x <= y
       IN <<m>> \o SortedSeq(S \ {m})

SeqToSet(s) == {s[k] : k \in 1..Len(s)}

\* variant: the query without its `take`
FindAvailable_NoTake(gs, batchSize) == SortedSeq(AvailableIds(gs))

\* variant: the query that takes the highest ids
FindAvailable_Newest(gs, batchSize) ==
  LET all == SortedSeq(AvailableIds(gs))
  IN SubSeq(all, Len(all) - Min(batchSize, Len(all)) + 1, Len(all))

\* tx.game.findMany({where, take: batchSize, orderBy: {id: 'asc'}})
FindAvailable(gs, batchSize) ==
  LET all == SortedSeq(AvailableIds(gs))
  IN SubSeq(all, 1, Min(batchSize, Len(all)))

\* variant: the update that writes processingBy only
ClaimUpdateMany_NoDate(gs, gameIds, workerId) ==
  [i \in DOMAIN gs |->
     IF i \in gameIds THEN [gs[i] EXCEPT !.processingBy = workerId] ELSE gs[i]]

\* tx.game.updateMany({where: {id: {in: gameIds}}, data: {processingBy, processingAt}})
ClaimUpdateMany(gs, gameIds, workerId) ==
  [i \in DOMAIN gs |->
     IF i \in gameIds
     THEN [gs[i] EXCEPT !.processingBy = workerId, !.processingAt = "date"]
     ELSE gs[i]]

\* the whole claim transaction run with nothing in between: the rows returned
ClaimReturn(gs, batchSize) == FindAvailable(gs, batchSize)

\* the whole claim transaction run with nothing in between: the table after it
ClaimTable(gs, workerId, batchSize) ==
  LET availableGames == FindAvailable(gs, batchSize)
  IN IF Len(availableGames) = 0 THEN gs
     ELSE ClaimUpdateMany(gs, SeqToSet(availableGames), workerId)

\* variant: the release whose where clause matches every leased row
ReleaseClaimedGames_AnyOwner(gs, workerId) ==
  [i \in DOMAIN gs |->
     [gs[i] EXCEPT !.processingBy = NULL, !.processingAt = NULL]]

\* variant: the release that frees one row per call, the oldest
ReleaseClaimedGames_OnePerCall(gs, workerId) ==
  LET mine == {i \in DOMAIN gs : gs[i].processingBy = workerId}
  IN [i \in DOMAIN gs |->
        IF i \in mine /\ \A j \in mine : i <= j
        THEN [gs[i] EXCEPT !.processingBy = NULL, !.processingAt = NULL]
        ELSE gs[i]]

\* releaseClaimedGames(workerId)
ReleaseClaimedGames(gs, workerId) ==
  [i \in DOMAIN gs |->
     IF gs[i].processingBy = workerId
     THEN [gs[i] EXCEPT !.processingBy = NULL, !.processingAt = NULL]
     ELSE gs[i]]

\* variant: the sweep with a where clause that names one worker id
ReleaseAllTable_OneOwner(gs) == ReleaseClaimedGames(gs, WorkerName[1])

\* releaseAllClaimedGames(): the table after it
ReleaseAllTable(gs) ==
  [i \in DOMAIN gs |->
     IF gs[i].processingBy # NULL
     THEN [gs[i] EXCEPT !.processingBy = NULL, !.processingAt = NULL]
     ELSE gs[i]]

\* variant: the count of all rows of the table
ReleaseAllCount_Rows(gs) == Cardinality(DOMAIN gs)

\* releaseAllClaimedGames(): result.count
ReleaseAllCount(gs) == Cardinality({i \in DOMAIN gs : gs[i].processingBy # NULL})

\* variant: the update that also gives the lease back
UpdateGameWithAllDetails_Unleases(gs, gameId, d) ==
  [gs EXCEPT ![gameId] =
     [@ EXCEPT !.weight = d.weight,
               !.cats = @ \/ d.cats,
               !.mechs = @ \/ d.mechs,
               !.fams = @ \/ d.fams,
               !.processingBy = NULL,
               !.processingAt = NULL]]

\* updateGameWithAllDetails(gameId, details): game.update overwrites weight
\* with details.weight; the link upserts only ever add rows
UpdateGameWithAllDetails(gs, gameId, d) ==
  [gs EXCEPT ![gameId] =
     [@ EXCEPT !.weight = d.weight,
               !.cats = @ \/ d.cats,
               !.mechs = @ \/ d.mechs,
               !.fams = @ \/ d.fams]]


(***************************************************************************)
(* State.                                                                  *)
(***************************************************************************)
VARIABLES
  games,          \* the game table, shared by every process
  singleProcess,  \* process.argv.includes('--single-process')
  supPc,          \* position of runParallelScrapers
  supExit,        \* outcome reported by runParallelScrapers
  pc,             \* position of each worker
  gamesToScrape,  \* each worker's current batch
  idx,            \* each worker's position in its batch
  err,            \* each worker: an error is propagating out of scrapeGameDetails
  exit,           \* each worker's outcome
  attempts,       \* history: per game, how often scrapeGameDetailPage was submitted
  held,           \* history: per worker, games it claimed and nobody released since
  nReleaseAll,    \* history: calls of releaseAllClaimedGames in this run
  failed,         \* history: per worker, a game of its latest batch failed
  lastCall,       \* history: the latest GameRepository call and what it returned
  queue,          \* RateLimiter.queue: the submitted operations not yet taken
  running,        \* RateLimiter.running
  lastRequestTime,\* RateLimiter.lastRequestTime
  now,            \* Date.now()
  loops,          \* every processQueue invocation: where it is suspended
  submitted,      \* history: the time of each throttle call, in call order
  dispatched,     \* history: each operation started and the time it started
  settled,        \* history: each operation ended, its outcome and its future's
  credentials,    \* BGG_USERNAME and BGG_PASSWORD are both set in the environment
  authFailed,     \* history: per worker, where it met the missing-credentials error
  cli,            \* runParallelScrapers seen from its command line: the arguments,
                  \* WORKERS, its position, numWorkers, and what it has done so far
  limiters,       \* the RateLimiter of each DetailScraper: queue, running,
                  \* lastRequestTime and its processQueue invocations
  opLog           \* history: per worker, the games it handed to throttle and
                  \* the games whose promise has settled

rlVars == <<queue, running, lastRequestTime, now, loops, submitted, dispatched, settled>>

procVars == <<singleProcess, supPc, supExit, pc, gamesToScrape, idx, err, exit,
              attempts, held, nReleaseAll, failed, credentials, authFailed, cli,
              limiters, opLog>>

vars == <<games, procVars, lastCall, rlVars>>

sysVars == <<procVars, rlVars>>

workerVars == <<pc, gamesToScrape, idx, err, exit>>
\* what no step of a run changes
env == <<singleProcess, lastCall, rlVars, credentials, cli, limiters, opLog>>
fixed == <<env, authFailed>>
supVars == <<fixed, supPc, supExit>>

Running == {"main", "init", "release0", "claim", "claimTx", "process", "cleanup"}

\* a table left behind by earlier runs: every game either untouched or
\* complete, and possibly still leased to a worker id of a crashed run
InitialTables ==
  [Ids -> {Row(NULL, NULL, EmptyPayload), Row(NULL, NULL, FullPayload),
           Row(WorkerName[1], "date", EmptyPayload)}]

\* a GameRepository call: its name, its workerId and batchSize arguments
\* where it has them, its return value, whether the call that ran just
\* before it was a claim, and, for a release, whether the two calls before
\* it were a claim and then a release for the same workerId
Call(op, w, n, ret) ==
  [op |-> op, workerId |-> w, batchSize |-> n, ret |-> ret,
   afterClaim |-> lastCall.op = "claimGamesForProcessing",
   afterRelease |-> /\ op = "releaseClaimedGames"
                    /\ lastCall.op = op
                    /\ lastCall.workerId = w
                    /\ lastCall.afterClaim]
NoCall ==
  [op |-> "none", workerId |-> NULL, batchSize |-> 0, ret |-> <<>>,
   afterClaim |-> FALSE, afterRelease |-> FALSE]

\* line 25 and line 29 of run-parallel-detail-scraper.ts
DefaultWorkers == 5
MaxWorkers == 20

\* a command line, its strings written as sequences of characters
Cmd(args, workers) ==
  [args |-> args, WORKERS |-> workers, at |-> "parse", numWorkers |-> DefaultWorkers,
   started |-> 0, released |-> 0, exitCode |-> 0]

\* the command line behind the runs with two workers
TwoWorkersCmd == Cmd(<< <<"2">> >>, <<>>)

\* a RateLimiter as its constructor leaves it (part_003 2-11), at a wall
\* clock far enough from the epoch that lastRequestTime = 0 is long ago
StartTime == MaxDelay
NoLoop == [at |-> "none", wake |-> 0, op |-> 0]
RLInit ==
  /\ queue = <<>>
  /\ running = FALSE
  /\ lastRequestTime = 0
  /\ now = StartTime
  /\ loops = [l \in 1..MaxOps |-> NoLoop]
  /\ submitted = <<>>
  /\ dispatched = <<>>
  /\ settled = <<>>

\* the RateLimiter that the constructor of each scraper makes (part_003 2-11,
\* part_004 17)
NewRateLimiter == [queue |-> <<>>, running |-> FALSE, lastRequestTime |-> 0, loops |-> {}]

SysInit ==
  /\ RLInit
  /\ limiters = [w \in Workers |-> NewRateLimiter]
  /\ opLog = [w \in Workers |-> [sub |-> <<>>, done |-> <<>>]]
  /\ authFailed = [w \in Workers |-> "no"]
  /\ singleProcess \in BOOLEAN
  /\ supPc = "releaseAll"
  /\ supExit = "none"
  /\ pc = [w \in Workers |-> "idle"]
  /\ gamesToScrape = [w \in Workers |-> <<>>]
  /\ idx = [w \in Workers |-> 0]
  /\ err = [w \in Workers |-> FALSE]
  /\ exit = [w \in Workers |-> "none"]
  /\ attempts = [i \in Ids |-> 0]
  /\ held = [w \in Workers |-> {}]
  /\ nReleaseAll = 0
  /\ failed = [w \in Workers |-> FALSE]

\* a run of the launcher with the BGG credentials configured
Init ==
  /\ games \in InitialTables
  /\ lastCall = NoCall
  /\ credentials = TRUE
  /\ cli = TwoWorkersCmd
  /\ SysInit

(***************************************************************************)
(* runParallelScrapers                                                     *)
(***************************************************************************)
\* variant: a failure of the global cleanup ends the launcher
SupReleaseAll_Fatal ==
  /\ supPc = "releaseAll"
  /\ nReleaseAll' = nReleaseAll + 1
  /\ \/ /\ games' = ReleaseAllTable(games)
        /\ held' = [w \in Workers |-> {}]
        /\ supPc' = "spawn"
        /\ UNCHANGED supExit
     \/ /\ supPc' = "done"
        /\ supExit' = "fail"
        /\ UNCHANGED <<games, held>>
  /\ UNCHANGED <<fixed, workerVars, attempts, failed>>

\* lines 48-57: the global cleanup; a failure is logged and ignored
SupReleaseAll ==
  /\ supPc = "releaseAll"
  /\ supPc' = "spawn"
  /\ nReleaseAll' = nReleaseAll + 1
  /\ \/ /\ games' = ReleaseAllTable(games)
        /\ held' = [w \in Workers |-> {}]
     \/ UNCHANGED <<games, held>>
  /\ UNCHANGED <<fixed, supExit, workerVars, attempts, failed>>

\* lines 59-65 and 76-88: start every worker; a spawned process enters
\* main() of run-detail-scraper.ts, an in-process worker enters
\* scrapeGameDetails directly
SupSpawn ==
  /\ supPc = "spawn"
  /\ supPc' = "wait"
  /\ pc' = [w \in Workers |-> IF singleProcess THEN "init" ELSE "main"]
  /\ UNCHANGED <<games, fixed, supExit, gamesToScrape, idx, err, exit,
                 attempts, held, nReleaseAll, failed>>

\* lines 67-69 and 108-110: Promise.all resolves when every worker succeeded
SupAllDone ==
  /\ supPc = "wait"
  /\ \A w \in Workers : exit[w] = "ok"
  /\ supPc' = "done"
  /\ supExit' = "ok"
  /\ UNCHANGED <<games, fixed, workerVars, attempts, held, nReleaseAll, failed>>

\* lines 70-73 and 111-114: Promise.all rejects with the first failure and the
\* launcher calls process.exit(1); workers living in the launcher's process
\* die with it, spawned processes keep running
SupSomeFailed ==
  /\ supPc = "wait"
  /\ \E w \in Workers : exit[w] = "fail"
  /\ supPc' = "done"
  /\ supExit' = "fail"
  /\ pc' = [w \in Workers |->
              IF singleProcess /\ pc[w] \in Running THEN "killed" ELSE pc[w]]
  /\ IF singleProcess
     THEN /\ gamesToScrape' = [w \in Workers |-> <<>>]
          /\ idx' = [w \in Workers |-> 0]
          /\ err' = [w \in Workers |-> FALSE]
          /\ failed' = [w \in Workers |-> FALSE]
     ELSE UNCHANGED <<gamesToScrape, idx, err, failed>>
  /\ UNCHANGED <<games, fixed, exit, attempts, held, nReleaseAll>>

(***************************************************************************)
(* run-detail-scraper.ts main(), worker mode                               *)
(***************************************************************************)
\* lines 50-56 and 62-65: every worker process first releases ALL claimed
\* games; a failure ends the process with exit code 1
WorkerMain(w) ==
  /\ pc[w] = "main"
  /\ nReleaseAll' = nReleaseAll + 1
  /\ \/ /\ games' = ReleaseAllTable(games)
        /\ held' = [v \in Workers |-> {}]
        /\ pc' = [pc EXCEPT ![w] = "init"]
        /\ UNCHANGED exit
     \/ /\ pc' = [pc EXCEPT ![w] = "exited"]
        /\ exit' = [exit EXCEPT ![w] = "fail"]
        /\ UNCHANGED <<games, held>>
  /\ UNCHANGED <<supVars, gamesToScrape, idx, err, attempts, failed>>

(***************************************************************************)
(* DetailScraper.scrapeGameDetails, batch mode                             *)
(***************************************************************************)
\* variant: the initial login that insists on credentials
PerformInitialLogin_Strict(creds, loginOk) ==
  IF ~creds THEN "throwsMissing" ELSE IF loginOk THEN "returns" ELSE "throws"

\* BaseScraper.performInitialLogin (part_004 35-58): without credentials it
\* warns and returns; with them it logs in and rethrows a failed login
PerformInitialLogin(creds, loginOk) ==
  IF ~creds THEN "returns" ELSE IF loginOk THEN "returns" ELSE "throws"

\* BaseScraper.initializeScraper (part_004 24-28): connect, launch, login
InitializeScraper(connectOk, launchOk, creds, loginOk) ==
  IF ~connectOk \/ ~launchOk THEN "throws" ELSE PerformInitialLogin(creds, loginOk)

\* BaseScraper.handleLoginIfRequired (part_004 60-73)
HandleLoginIfRequired(loginRequired, creds, loginOk) ==
  IF ~loginRequired THEN "returns"
  ELSE IF ~creds THEN "throwsMissing"
  ELSE IF loginOk THEN "returns" ELSE "throws"

\* line 214: initializeScraper() (connect, launch, initial login) runs before
\* the try block; when it throws, neither catch nor finally runs
WorkerInit(w) ==
  /\ pc[w] = "init"
  /\ \E connectOk \in BOOLEAN, launchOk \in BOOLEAN, loginOk \in BOOLEAN :
       LET r == InitializeScraper(connectOk, launchOk, credentials, loginOk)
       IN IF r = "returns"
          THEN /\ pc' = [pc EXCEPT ![w] = "release0"]
               /\ UNCHANGED <<exit, authFailed>>
          ELSE /\ pc' = [pc EXCEPT ![w] = "exited"]
               /\ exit' = [exit EXCEPT ![w] = "fail"]
               /\ authFailed' = [authFailed EXCEPT
                                   ![w] = IF r = "throwsMissing" THEN "startup" ELSE @]
  /\ UNCHANGED <<games, env, supPc, supExit, gamesToScrape, idx, err, attempts, held,
                 nReleaseAll, failed>>

\* variant: the worker enters its loop without the release of line 218
WorkerRelease0_Skips(w) ==
  /\ pc[w] = "release0"
  /\ pc' = [pc EXCEPT ![w] = "claim"]
  /\ UNCHANGED <<games, held, err>>
  /\ UNCHANGED <<supVars, gamesToScrape, idx, exit, attempts, nReleaseAll, failed>>

\* line 218: release what this worker id still holds from previous runs
WorkerRelease0(w) ==
  /\ pc[w] = "release0"
  /\ \/ /\ games' = ReleaseClaimedGames(games, w)
        /\ held' = [held EXCEPT ![w] = {}]
        /\ pc' = [pc EXCEPT ![w] = "claim"]
        /\ UNCHANGED err
     \/ /\ pc' = [pc EXCEPT ![w] = "cleanup"]
        /\ err' = [err EXCEPT ![w] = TRUE]
        /\ UNCHANGED <<games, held>>
  /\ UNCHANGED <<supVars, gamesToScrape, idx, exit, attempts, nReleaseAll, failed>>

\* line 239, first statement of the claim transaction (part_001 238-271):
\* the findMany; an empty result ends the transaction and the while loop
ClaimSelect(w) ==
  /\ pc[w] = "claim"
  /\ failed' = [failed EXCEPT ![w] = FALSE]
  /\ \/ LET availableGames == FindAvailable(games, BatchSize)
        IN IF Len(availableGames) = 0
           THEN /\ pc' = [pc EXCEPT ![w] = "cleanup"]
                /\ UNCHANGED <<gamesToScrape, err>>
           ELSE /\ pc' = [pc EXCEPT ![w] = "claimTx"]
                /\ gamesToScrape' = [gamesToScrape EXCEPT ![w] = availableGames]
                /\ UNCHANGED err
     \/ /\ pc' = [pc EXCEPT ![w] = "cleanup"]
        /\ err' = [err EXCEPT ![w] = TRUE]
        /\ UNCHANGED gamesToScrape
  /\ UNCHANGED <<games, supVars, idx, exit, attempts, held, nReleaseAll>>

\* second statement of the claim transaction (part_001 273-285): the
\* updateMany over the selected ids, then the return of the selected rows
ClaimUpdate(w) ==
  /\ pc[w] = "claimTx"
  /\ \/ /\ games' = ClaimUpdateMany(games, SeqToSet(gamesToScrape[w]), w)
        /\ held' = [held EXCEPT ![w] = @ \cup SeqToSet(gamesToScrape[w])]
        /\ idx' = [idx EXCEPT ![w] = 1]
        /\ pc' = [pc EXCEPT ![w] = "process"]
        /\ UNCHANGED <<gamesToScrape, err>>
     \/ /\ pc' = [pc EXCEPT ![w] = "cleanup"]
        /\ err' = [err EXCEPT ![w] = TRUE]
        /\ gamesToScrape' = [gamesToScrape EXCEPT ![w] = <<>>]
        /\ UNCHANGED <<games, held, idx>>
  /\ UNCHANGED <<supVars, exit, attempts, nReleaseAll, failed>>

\* what follows one iteration of the for loop (lines 250-262): the next game
\* of the batch, or after the last one the next pass of the while loop
AfterItem(w) ==
  IF idx[w] < Len(gamesToScrape[w])
  THEN /\ idx' = [idx EXCEPT ![w] = @ + 1]
       /\ UNCHANGED <<pc, gamesToScrape>>
  ELSE /\ idx' = [idx EXCEPT ![w] = 0]
       /\ pc' = [pc EXCEPT ![w] = "claim"]
       /\ gamesToScrape' = [gamesToScrape EXCEPT ![w] = <<>>]

\* variant: the worker releases its leases after the last game of a batch
ProcessItemOk_ReleasesAfterBatch(w) ==
  /\ pc[w] = "process"
  /\ LET game == gamesToScrape[w][idx[w]]
     IN /\ attempts' = [attempts EXCEPT ![game] = Min(@ + 1, MaxAttempts)]
        /\ \E d \in DetailsSet :
             games' = IF idx[w] < Len(gamesToScrape[w])
                      THEN UpdateGameWithAllDetails(games, game, d)
                      ELSE ReleaseClaimedGames(UpdateGameWithAllDetails(games, game, d), w)
  /\ AfterItem(w)
  /\ UNCHANGED <<supVars, err, exit, held, nReleaseAll, failed>>

\* lines 251-258: rateLimiter.throttle(scrapeGameDetailPage(game)) resolves:
\* the extraction succeeded and updateGameWithAllDetails wrote its result
ProcessItemOk(w) ==
  /\ pc[w] = "process"
  /\ LET game == gamesToScrape[w][idx[w]]
     IN /\ attempts' = [attempts EXCEPT ![game] = Min(@ + 1, MaxAttempts)]
        /\ \E d \in DetailsSet : games' = UpdateGameWithAllDetails(games, game, d)
  /\ AfterItem(w)
  /\ UNCHANGED <<supVars, err, exit, held, nReleaseAll, failed>>

\* variant: no try/catch around the game, the error leaves the while loop
ProcessItemFail_Escapes(w) ==
  /\ pc[w] = "process"
  /\ LET game == gamesToScrape[w][idx[w]]
     IN attempts' = [attempts EXCEPT ![game] = Min(@ + 1, MaxAttempts)]
  /\ failed' = [failed EXCEPT ![w] = TRUE]
  /\ err' = [err EXCEPT ![w] = TRUE]
  /\ pc' = [pc EXCEPT ![w] = "cleanup"]
  /\ idx' = [idx EXCEPT ![w] = 0]
  /\ gamesToScrape' = [gamesToScrape EXCEPT ![w] = <<>>]
  /\ UNCHANGED <<games, supVars, exit, held, nReleaseAll>>

\* variant: the lease of a game is cleared when its scrape has failed
ProcessItemFail_ClearsLease(w) ==
  /\ pc[w] = "process"
  /\ LET game == gamesToScrape[w][idx[w]]
     IN /\ attempts' = [attempts EXCEPT ![game] = Min(@ + 1, MaxAttempts)]
        /\ games' = [games EXCEPT ![game].processingBy = NULL,
                                  ![game].processingAt = NULL]
  /\ failed' = [failed EXCEPT ![w] = TRUE]
  /\ AfterItem(w)
  /\ UNCHANGED <<supVars, err, exit, held, nReleaseAll>>

\* lines 259-261: scrapeGameDetailPage throws (page load, login, extraction or
\* the store) and the error is caught and logged; the game update of
\* updateGameWithAllDetails may or may not have committed before the throw
ProcessItemFail(w) ==
  /\ pc[w] = "process"
  /\ LET game == gamesToScrape[w][idx[w]]
     IN /\ attempts' = [attempts EXCEPT ![game] = Min(@ + 1, MaxAttempts)]
        /\ \/ UNCHANGED games
           \/ \E d \in DetailsSet : games' = UpdateGameWithAllDetails(games, game, d)
  /\ failed' = [failed EXCEPT ![w] = TRUE]
  /\ AfterItem(w)
  /\ UNCHANGED <<supVars, err, exit, held, nReleaseAll>>

\* variant: the error is dropped once the cleanup has run
WorkerCleanup_Swallows(w) ==
  /\ pc[w] = "cleanup"
  /\ pc' = [pc EXCEPT ![w] = "exited"]
  /\ err' = [err EXCEPT ![w] = FALSE]
  /\ games' = ReleaseClaimedGames(games, w)
  /\ held' = [held EXCEPT ![w] = {}]
  /\ exit' = [exit EXCEPT ![w] = "ok"]
  /\ UNCHANGED <<supVars, gamesToScrape, idx, attempts, nReleaseAll, failed>>

\* lines 273-277: the finally block; releaseClaimedGames may itself throw
WorkerCleanup(w) ==
  /\ pc[w] = "cleanup"
  /\ pc' = [pc EXCEPT ![w] = "exited"]
  /\ err' = [err EXCEPT ![w] = FALSE]
  /\ \/ /\ games' = ReleaseClaimedGames(games, w)
        /\ held' = [held EXCEPT ![w] = {}]
        /\ exit' = [exit EXCEPT ![w] = IF err[w] THEN "fail" ELSE "ok"]
     \/ /\ exit' = [exit EXCEPT ![w] = "fail"]
        /\ UNCHANGED <<games, held>>
  /\ UNCHANGED <<supVars, gamesToScrape, idx, attempts, nReleaseAll, failed>>

\* a worker process dies at any point without running its finally block
WorkerCrash(w) ==
  /\ pc[w] \in Running
  /\ pc' = [pc EXCEPT ![w] = "crashed"]
  /\ exit' = [exit EXCEPT ![w] = "fail"]
  /\ gamesToScrape' = [gamesToScrape EXCEPT ![w] = <<>>]
  /\ idx' = [idx EXCEPT ![w] = 0]
  /\ err' = [err EXCEPT ![w] = FALSE]
  /\ failed' = [failed EXCEPT ![w] = FALSE]
  /\ UNCHANGED <<games, supVars, attempts, held, nReleaseAll>>

Next ==
  \/ SupReleaseAll
  \/ SupSpawn
  \/ SupAllDone
  \/ SupSomeFailed
  \/ \E w \in Workers :
       \/ WorkerMain(w)
       \/ WorkerInit(w)
       \/ WorkerRelease0(w)
       \/ ClaimSelect(w)
       \/ ClaimUpdate(w)
       \/ ProcessItemOk(w)
       \/ ProcessItemFail(w)
       \/ WorkerCleanup(w)
       \/ WorkerCrash(w)

\* the launcher and its workers, in every interleaving
Spec == Init /\ [][Next]_vars

(***************************************************************************)
(* GameRepository driven one call at a time: every call runs to completion *)
(* before the next one starts.  The table starts empty and is filled by    *)
(* createGame.                                                             *)
(***************************************************************************)
\* details handed to updateGameWithAllDetails and createGame: everything
\* found, nothing found, or the weight found and all three credit lists empty
RepoDetails ==
  { FullPayload, EmptyPayload,
    [weight |-> "set", cats |-> FALSE, mechs |-> FALSE, fams |-> FALSE] }

\* createGame(gameData), part_001 48-131: a new row with the next id, the given
\* payload and both lease columns at their default null
CreateGame(gs, d) ==
  LET id == Cardinality(DOMAIN gs) + 1
  IN [i \in (DOMAIN gs) \cup {id} |-> IF i = id THEN Row(NULL, NULL, d) ELSE gs[i]]

RepoCreate ==
  /\ Cardinality(DOMAIN games) < NumGames
  /\ \E d \in RepoDetails :
       /\ games' = CreateGame(games, d)
       /\ lastCall' = Call("createGame", NULL, 0, <<>>)
  /\ UNCHANGED sysVars

RepoClaim ==
  \E w \in Workers, n \in 1..BatchSize :
    /\ games' = ClaimTable(games, w, n)
    /\ lastCall' = Call("claimGamesForProcessing", w, n, ClaimReturn(games, n))
    /\ UNCHANGED sysVars

RepoRelease ==
  \E w \in Workers :
    /\ games' = ReleaseClaimedGames(games, w)
    /\ lastCall' = Call("releaseClaimedGames", w, 0, <<>>)
    /\ UNCHANGED sysVars

RepoReleaseAll ==
  /\ games' = ReleaseAllTable(games)
  /\ lastCall' = Call("releaseAllClaimedGames", NULL, 0, <<ReleaseAllCount(games)>>)
  /\ UNCHANGED sysVars

RepoUpdate ==
  \E i \in DOMAIN games, d \in RepoDetails :
    /\ games' = UpdateGameWithAllDetails(games, i, d)
    /\ lastCall' = Call("updateGameWithAllDetails", NULL, 0, <<>>)
    /\ UNCHANGED sysVars

InitRepo ==
  /\ games = <<>>
  /\ lastCall = NoCall
  /\ credentials = TRUE
  /\ cli = TwoWorkersCmd
  /\ SysInit
  /\ singleProcess = FALSE

NextRepo ==
  \/ RepoCreate
  \/ RepoClaim
  \/ RepoRelease
  \/ RepoReleaseAll
  \/ RepoUpdate

SpecRepo == InitRepo /\ [][NextRepo]_vars

(***************************************************************************)
(* The launcher and its workers when nothing fails: every store call,      *)
(* every start-up and every extraction succeeds, every extraction yields   *)
(* a complete payload, and no process dies.                                *)
(***************************************************************************)
E2ESupReleaseAll == SupReleaseAll /\ games' = ReleaseAllTable(games)
E2ESupSpawn == SupSpawn
E2ESupAllDone == SupAllDone
E2EWorkerMain(w) == WorkerMain(w) /\ pc'[w] = "init"
E2EWorkerInit(w) == WorkerInit(w) /\ pc'[w] = "release0"
E2EWorkerRelease0(w) == WorkerRelease0(w) /\ pc'[w] = "claim"
E2EClaimSelect(w) == ClaimSelect(w) /\ ~err'[w]
E2EClaimUpdate(w) == ClaimUpdate(w) /\ pc'[w] = "process"
E2EProcessItem(w) ==
  /\ ProcessItemOk(w)
  /\ games' = UpdateGameWithAllDetails(games, gamesToScrape[w][idx[w]], FullPayload)
E2EWorkerCleanup(w) == WorkerCleanup(w) /\ exit'[w] = "ok"

NextE2E ==
  \/ E2ESupReleaseAll
  \/ E2ESupSpawn
  \/ E2ESupAllDone
  \/ \E w \in Workers :
       \/ E2EWorkerMain(w)
       \/ E2EWorkerInit(w)
       \/ E2EWorkerRelease0(w)
       \/ E2EClaimSelect(w)
       \/ E2EClaimUpdate(w)
       \/ E2EProcessItem(w)
       \/ E2EWorkerCleanup(w)

SpecE2E == Init /\ [][NextE2E]_vars

(***************************************************************************)
(* The launcher and its workers over a fresh table, with or without the    *)
(* BGG credentials in the environment.  The store never fails and no       *)
(* process dies; start-up and logins may fail.                             *)
(***************************************************************************)
\* lines 290 and 259-261: the page asks for a login, handleLoginIfRequired
\* throws for lack of credentials before anything is extracted or written;
\* scrapeGameDetailPage rethrows and the for loop's catch logs the error
ProcessItemAuthFail(w) ==
  /\ pc[w] = "process"
  /\ \E loginOk \in BOOLEAN :
       HandleLoginIfRequired(TRUE, credentials, loginOk) = "throwsMissing"
  /\ LET game == gamesToScrape[w][idx[w]]
     IN attempts' = [attempts EXCEPT ![game] = Min(@ + 1, MaxAttempts)]
  /\ failed' = [failed EXCEPT ![w] = TRUE]
  /\ authFailed' = [authFailed EXCEPT ![w] = "item"]
  /\ AfterItem(w)
  /\ UNCHANGED <<games, env, supPc, supExit, err, exit, held, nReleaseAll>>

InitAuth ==
  /\ games = [i \in Ids |-> Row(NULL, NULL, EmptyPayload)]
  /\ lastCall = NoCall
  /\ credentials \in BOOLEAN
  /\ cli = TwoWorkersCmd
  /\ SysInit

NextAuth ==
  \/ E2ESupReleaseAll
  \/ SupSpawn
  \/ SupAllDone
  \/ SupSomeFailed
  \/ \E w \in Workers :
       \/ E2EWorkerMain(w)
       \/ WorkerInit(w)
       \/ E2EWorkerRelease0(w)
       \/ E2EClaimSelect(w)
       \/ E2EClaimUpdate(w)
       \/ ProcessItemOk(w)
       \/ ProcessItemAuthFail(w)
       \/ E2EWorkerCleanup(w)

SpecAuth == InitAuth /\ [][NextAuth]_vars

(***************************************************************************)
(* The launcher and its workers over a table that an earlier run with more *)
(* workers left behind when it was killed: new games, some of them still   *)
(* leased to a worker id that the present run does not start.              *)
(***************************************************************************)
FormerWorker == "worker-3"

StaleTables ==
  [Ids -> {Row(NULL, NULL, EmptyPayload), Row(FormerWorker, "date", EmptyPayload)}]

InitStale ==
  /\ games \in StaleTables
  /\ lastCall = NoCall
  /\ credentials = TRUE
  /\ cli = TwoWorkersCmd
  /\ SysInit

SpecStale == InitStale /\ [][Next]_vars

(***************************************************************************)
(* The launcher and its workers when every call of the store returns       *)
(* normally and start-up succeeds; the scrape of a game may fail, any      *)
(* number of times.  The launcher and every worker keep running: a step    *)
(* that can be taken is taken.                                             *)
(***************************************************************************)
LauncherStep ==
  \/ E2ESupReleaseAll
  \/ SupSpawn
  \/ SupAllDone

WorkerStep(w) ==
  \/ E2EWorkerMain(w)
  \/ E2EWorkerInit(w)
  \/ E2EWorkerRelease0(w)
  \/ E2EClaimSelect(w)
  \/ E2EClaimUpdate(w)
  \/ ProcessItemOk(w)
  \/ ProcessItemFail(w)
  \/ E2EWorkerCleanup(w)

NextLive ==
  \/ LauncherStep
  \/ \E w \in Workers : WorkerStep(w)

SpecLive ==
  /\ Init
  /\ [][NextLive]_vars
  /\ WF_vars(LauncherStep)
  /\ \A w \in Workers : WF_vars(WorkerStep(w))

(***************************************************************************)
(* One RateLimiter (part_003) and its callers.  JavaScript runs each piece *)
(* of code between two awaits without interruption, so an action is one    *)
(* such piece.  Operations are numbered in the order of their throttle     *)
(* calls; a processQueue invocation is named by the number of the          *)
(* operation whose throttle call made it.                                  *)
(***************************************************************************)
Max(a, b) == IF a >= b THEN a ELSE b

\* line 38: minDelay + Math.random() * (maxDelay - minDelay)
RandomDelays == MinDelay..MaxDelay

\* variant: the whole delay is waited, whatever time has passed
WaitTime_Whole(randomDelay, t, last) == randomDelay

\* variant: no delay before a dispatch
WaitTime_None(randomDelay, t, last) == 0

\* lines 36-39: waitTime
WaitTime(randomDelay, t, last) == Max(0, randomDelay - (t - last))

\* variant: processQueue without the running flag in its guard
ProcessQueueReturns_NoFlag(r, q) == q = <<>>

\* lines 29-31: processQueue returns at once
ProcessQueueReturns(r, q) == r \/ q = <<>>

\* variant: the newest task is taken first
Shift_Last(q) == [task |-> q[Len(q)], rest |-> SubSeq(q, 1, Len(q) - 1)]

\* line 46: queue.shift()
Shift(q) == [task |-> Head(q), rest |-> Tail(q)]

\* variant: the queued task without its try/catch
Task_NoCatch(outcome) ==
  [future |-> IF outcome = "ok" THEN "resolved" ELSE "pending",
   rejects |-> outcome # "ok"]

\* lines 15-22: the queued task awaits fn(), resolves the caller's promise
\* with its result or rejects it with its error, and never rejects itself
Task(outcome) ==
  [future |-> IF outcome = "ok" THEN "resolved" ELSE "rejected",
   rejects |-> FALSE]

\* variant: processQueue returns without clearing the running flag
LoopEnds_KeepsFlag(l, q) ==
  /\ queue' = q
  /\ running' = running
  /\ loops' = [loops EXCEPT ![l] = NoLoop]
  /\ UNCHANGED <<lastRequestTime, dispatched>>

\* line 53 and the return of processQueue
LoopEnds(l, q) ==
  /\ queue' = q
  /\ running' = FALSE
  /\ loops' = [loops EXCEPT ![l] = NoLoop]
  /\ UNCHANGED <<lastRequestTime, dispatched>>

\* lines 46-50: take the first task, stamp lastRequestTime, start the task
TakeTask(l, q, r) ==
  LET s == Shift(q)
  IN /\ queue' = s.rest
     /\ running' = r
     /\ lastRequestTime' = now
     /\ loops' = [loops EXCEPT ![l] = [at |-> "task", wake |-> 0, op |-> s.task]]
     /\ dispatched' = Append(dispatched, [op |-> s.task, at |-> now])

\* lines 35-44: the while test and the wait of one iteration, for the
\* invocation l, with q the queue and r the running flag at that moment
WhileStep(l, q, r) ==
  IF q = <<>>
  THEN LoopEnds(l, q)
  ELSE \E d \in RandomDelays :
         LET waitTime == WaitTime(d, now, lastRequestTime)
         IN IF waitTime > 0
            THEN /\ queue' = q
                 /\ running' = r
                 /\ loops' = [loops EXCEPT
                                ![l] = [at |-> "timer", wake |-> now + waitTime, op |-> 0]]
                 /\ UNCHANGED <<lastRequestTime, dispatched>>
            ELSE TakeTask(l, q, r)

\* lines 13-26 and 28-33: throttle(fn) pushes the task and calls
\* processQueue, which runs up to its first await
Throttle ==
  /\ Len(submitted) < MaxOps
  /\ LET id == Len(submitted) + 1
         q == Append(queue, id)
     IN /\ submitted' = Append(submitted, now)
        /\ IF ProcessQueueReturns(running, q)
           THEN /\ queue' = q
                /\ UNCHANGED <<running, lastRequestTime, loops, dispatched>>
           ELSE WhileStep(id, q, TRUE)
  /\ UNCHANGED <<now, settled>>
  /\ UNCHANGED <<games, lastCall, procVars>>

\* lines 42-50: the setTimeout of line 43 fires, not before its time
TimerFires(l) ==
  /\ loops[l].at = "timer"
  /\ now >= loops[l].wake
  /\ IF queue = <<>>
     THEN LoopEnds(l, queue)
     ELSE TakeTask(l, queue, running)
  /\ UNCHANGED <<now, submitted, settled>>
  /\ UNCHANGED <<games, lastCall, procVars>>

\* lines 17-21: fn() ends, with a result or with an error, and the task
\* settles the promise that throttle returned
OpSettles(l) ==
  /\ loops[l].at = "task"
  /\ \E outcome \in {"ok", "error"} :
       LET t == Task(outcome)
       IN /\ settled' = Append(settled, [op |-> loops[l].op, outcome |-> outcome,
                                         future |-> t.future, at |-> now])
          /\ loops' = [loops EXCEPT
                         ![l] = IF t.rejects
                                THEN NoLoop
                                ELSE [at |-> "resume", wake |-> 0, op |-> 0]]
  /\ UNCHANGED <<queue, running, lastRequestTime, now, submitted, dispatched>>
  /\ UNCHANGED <<games, lastCall, procVars>>

\* line 49 to line 35: await task() returns and the loop goes on; code that
\* was waiting for the operation's promise runs before this
LoopResumes(l) ==
  /\ loops[l].at = "resume"
  /\ WhileStep(l, queue, running)
  /\ UNCHANGED <<now, submitted, settled>>
  /\ UNCHANGED <<games, lastCall, procVars>>

\* the wall clock advances
Tick ==
  /\ now < StartTime + Horizon
  /\ now' = now + 1
  /\ UNCHANGED <<queue, running, lastRequestTime, loops, submitted, dispatched, settled>>
  /\ UNCHANGED <<games, lastCall, procVars>>

InitRL ==
  /\ games = <<>>
  /\ lastCall = NoCall
  /\ credentials = TRUE
  /\ cli = TwoWorkersCmd
  /\ SysInit
  /\ singleProcess = FALSE

NextRL ==
  \/ Throttle
  \/ Tick
  \/ \E l \in 1..MaxOps :
       \/ TimerFires(l)
       \/ OpSettles(l)
       \/ LoopResumes(l)

SpecRL == InitRL /\ [][NextRL]_vars

\* line 43: the wall clock goes on until a pending setTimeout is due,
\* however late that is
TimerElapses ==
  /\ \E l \in 1..MaxOps : loops[l].at = "timer" /\ now < loops[l].wake
  /\ now' = now + 1
  /\ UNCHANGED <<queue, running, lastRequestTime, loops, submitted, dispatched, settled>>
  /\ UNCHANGED <<games, lastCall, procVars>>

\* the wall clock of an otherwise idle event loop: a timer that is due and
\* the continuation of a settled await run before time moves on
TickTimed ==
  /\ now < StartTime + Horizon
  /\ \A l \in 1..MaxOps :
       /\ loops[l].at # "resume"
       /\ loops[l].at = "timer" => now < loops[l].wake
  /\ now' = now + 1
  /\ UNCHANGED <<queue, running, lastRequestTime, loops, submitted, dispatched, settled>>
  /\ UNCHANGED <<games, lastCall, procVars>>

NextRLTimed ==
  \/ Throttle
  \/ TickTimed
  \/ \E l \in 1..MaxOps :
       \/ TimerFires(l)
       \/ OpSettles(l)
       \/ LoopResumes(l)

SpecRLTimed == InitRL /\ [][NextRLTimed]_vars

NextRLFair ==
  \/ Throttle
  \/ Tick
  \/ TimerElapses
  \/ \E l \in 1..MaxOps :
       \/ TimerFires(l)
       \/ OpSettles(l)
       \/ LoopResumes(l)

\* The event loop runs every callback that is ready: a timer that is due
\* fires, the continuation of a settled await runs, and time passes.  That
\* each operation ends (OpSettles) is the assumption under which the
\* limiter promises progress.  Throttle calls are not forced.
SpecRLFair ==
  /\ InitRL
  /\ [][NextRLFair]_vars
  /\ WF_vars(TimerElapses)
  /\ \A l \in 1..MaxOps :
       /\ WF_vars(TimerFires(l))
       /\ WF_vars(OpSettles(l))
       /\ WF_vars(LoopResumes(l))

(***************************************************************************)
(* The workers of one launcher process with the RateLimiter of each        *)
(* scraper: scrapeGameDetails hands every game of a batch to               *)
(* rateLimiter.throttle and awaits the promise (lines 250-262).  The       *)
(* limiter is part_003 again, as operators over one limiter's fields; a    *)
(* queued task is named by the worker that made it and its game.  The      *)
(* store and the start-up never fail here, a scrape that succeeds finds   *)
(* every detail, and the clock is followed up to StartTime + Horizon.      *)
(***************************************************************************)
NoOp == [worker |-> NULL, game |-> 0]
NewLoop == [at |-> "start", wake |-> 0, op |-> NoOp]

\* line 53 and the return of processQueue
LimLoopEnds(L, l) == [L EXCEPT !.running = FALSE, !.loops = @ \ {l}]

\* lines 46-50
LimTakeTask(L, l, t) ==
  LET s == Shift(L.queue)
  IN [L EXCEPT !.queue = s.rest,
               !.lastRequestTime = t,
               !.loops = (@ \ {l}) \cup {[at |-> "task", wake |-> 0, op |-> s.task]}]

\* lines 35-44, for the delay d drawn at line 38
LimWhileStep(L, l, t, d) ==
  IF L.queue = <<>>
  THEN LimLoopEnds(L, l)
  ELSE LET waitTime == WaitTime(d, t, L.lastRequestTime)
       IN IF waitTime > 0
          THEN [L EXCEPT !.loops = (@ \ {l}) \cup
                                     {[at |-> "timer", wake |-> t + waitTime, op |-> NoOp]}]
          ELSE LimTakeTask(L, l, t)

\* lines 13-26 and 28-33
LimThrottle(L, op, t, d) ==
  LET pushed == [L EXCEPT !.queue = Append(@, op)]
  IN IF ProcessQueueReturns(pushed.running, pushed.queue)
     THEN pushed
     ELSE LimWhileStep([pushed EXCEPT !.running = TRUE], NewLoop, t, d)

\* lines 42-50, when the setTimeout fires
LimTimerFires(L, l, t) ==
  IF L.queue = <<>> THEN LimLoopEnds(L, l) ELSE LimTakeTask(L, l, t)

\* variant: one RateLimiter shared by every scraper
LimiterOf_Shared(w) == WorkerName[1]

\* part_004 line 17, run-parallel-detail-scraper.ts line 9: every worker
\* makes its own DetailScraper, whose constructor makes its own RateLimiter
LimiterOf(w) == w

\* what the limiter steps of a worker leave alone
wlFixed == <<singleProcess, lastCall, credentials, cli, authFailed, supPc, supExit,
             err, exit, held, nReleaseAll,
             queue, running, lastRequestTime, loops, submitted, dispatched, settled>>

\* variant: the games of a batch are handed to throttle without awaiting
WorkerThrottle_NoAwait(w) ==
  /\ pc[w] = "process"
  /\ LET op == [worker |-> w, game |-> gamesToScrape[w][idx[w]]]
     IN /\ \E d \in RandomDelays :
             limiters' = [limiters EXCEPT ![LimiterOf(w)] = LimThrottle(@, op, now, d)]
        /\ opLog' = [opLog EXCEPT ![w].sub = Append(@, op.game)]
  /\ AfterItem(w)
  /\ UNCHANGED <<games, wlFixed, now, attempts, failed>>

\* line 252: throttle(() => scrapeGameDetailPage(game)), and the await of
\* its promise
WorkerThrottle(w) ==
  /\ pc[w] = "process"
  /\ LET op == [worker |-> w, game |-> gamesToScrape[w][idx[w]]]
     IN /\ \E d \in RandomDelays :
             limiters' = [limiters EXCEPT ![LimiterOf(w)] = LimThrottle(@, op, now, d)]
        /\ opLog' = [opLog EXCEPT ![w].sub = Append(@, op.game)]
  /\ pc' = [pc EXCEPT ![w] = "await"]
  /\ UNCHANGED <<games, wlFixed, now, gamesToScrape, idx, attempts, failed>>

\* part_003 lines 42-50: the setTimeout of limiter m fires
LimiterTimerFires(m) ==
  /\ \E l \in limiters[m].loops :
       /\ l.at = "timer"
       /\ now >= l.wake
       /\ limiters' = [limiters EXCEPT ![m] = LimTimerFires(@, l, now)]
  /\ UNCHANGED <<games, wlFixed, now, pc, gamesToScrape, idx, attempts, failed, opLog>>

\* part_003 lines 17-21 around scrapeGameDetailPage (lines 279-333): the
\* page is scraped and updateGameWithAllDetails writes the result, or the
\* scrape throws; either way the task settles the promise of throttle
ItemSettles(m) ==
  /\ \E l \in limiters[m].loops :
       /\ l.at = "task"
       /\ \E outcome \in {"ok", "error"} :
            LET t == Task(outcome)
            IN /\ limiters' = [limiters EXCEPT
                                 ![m].loops = (@ \ {l}) \cup
                                   (IF t.rejects THEN {}
                                    ELSE {[at |-> "resume", wake |-> 0, op |-> NoOp]})]
               /\ IF outcome = "ok"
                  THEN games' = UpdateGameWithAllDetails(games, l.op.game, FullPayload)
                  ELSE UNCHANGED games
               /\ pc' = [pc EXCEPT ![l.op.worker] = t.future]
       /\ attempts' = [attempts EXCEPT ![l.op.game] = Min(@ + 1, MaxAttempts)]
       /\ opLog' = [opLog EXCEPT ![l.op.worker].done = Append(@, l.op.game)]
  /\ UNCHANGED <<wlFixed, now, gamesToScrape, idx, failed>>

\* part_003 line 49 to line 35: await task() returns in limiter m
LimiterResumes(m) ==
  /\ \E l \in limiters[m].loops :
       /\ l.at = "resume"
       /\ \E d \in RandomDelays :
            limiters' = [limiters EXCEPT ![m] = LimWhileStep(@, l, now, d)]
  /\ UNCHANGED <<games, wlFixed, now, pc, gamesToScrape, idx, attempts, failed, opLog>>

\* lines 255-262: the awaited promise has settled; an error is logged and
\* the for loop goes on with the next game or leaves for the next claim
WorkerNextItem(w) ==
  /\ pc[w] \in {"resolved", "rejected"}
  /\ failed' = [failed EXCEPT ![w] = @ \/ pc[w] = "rejected"]
  /\ IF idx[w] < Len(gamesToScrape[w])
     THEN /\ idx' = [idx EXCEPT ![w] = @ + 1]
          /\ pc' = [pc EXCEPT ![w] = "process"]
          /\ UNCHANGED gamesToScrape
     ELSE /\ idx' = [idx EXCEPT ![w] = 0]
          /\ pc' = [pc EXCEPT ![w] = "claim"]
          /\ gamesToScrape' = [gamesToScrape EXCEPT ![w] = <<>>]
  /\ UNCHANGED <<games, wlFixed, now, attempts, limiters, opLog>>

\* the wall clock of the process; it is followed for as long as it can
\* change a wait: until a pending timer is due and until maxDelay has
\* passed since the last dispatch of a limiter
WLTick ==
  /\ now < StartTime + Horizon
  /\ \E m \in Workers :
       \/ \E l \in limiters[m].loops : l.at = "timer" /\ now < l.wake
       \/ /\ limiters[m].lastRequestTime > 0
          /\ now - limiters[m].lastRequestTime < MaxDelay
  /\ now' = now + 1
  /\ UNCHANGED <<games, wlFixed, pc, gamesToScrape, idx, attempts, failed, limiters, opLog>>

\* a launcher started with --single-process over a table of new games
InitWL ==
  /\ games = [i \in Ids |-> Row(NULL, NULL, EmptyPayload)]
  /\ lastCall = NoCall
  /\ credentials = TRUE
  /\ cli = TwoWorkersCmd
  /\ SysInit
  /\ singleProcess = TRUE

NextWL ==
  \/ E2ESupReleaseAll
  \/ SupSpawn
  \/ SupAllDone
  \/ WLTick
  \/ \E w \in Workers :
       \/ E2EWorkerInit(w)
       \/ E2EWorkerRelease0(w)
       \/ E2EClaimSelect(w)
       \/ E2EClaimUpdate(w)
       \/ WorkerThrottle(w)
       \/ LimiterTimerFires(w)
       \/ ItemSettles(w)
       \/ LimiterResumes(w)
       \/ WorkerNextItem(w)
       \/ E2EWorkerCleanup(w)

SpecWL == InitWL /\ [][NextWL]_vars

(***************************************************************************)
(* runParallelScrapers from its command line to the start of its workers   *)
(* (lines 20-88).  A string is a sequence of one-character strings.        *)
(***************************************************************************)
DigitValue ==
  ("0" :> 0) @@ ("1" :> 1) @@ ("2" :> 2) @@ ("3" :> 3) @@ ("4" :> 4) @@
  ("5" :> 5) @@ ("6" :> 6) @@ ("7" :> 7) @@ ("8" :> 8) @@ ("9" :> 9)

RECURSIVE SkipSpaces(_)
SkipSpaces(s) == IF s # <<>> /\ Head(s) = " " THEN SkipSpaces(Tail(s)) ELSE s

\* the longest prefix of s made of decimal digits
RECURSIVE DigitPrefix(_)
DigitPrefix(s) ==
  IF s = <<>> \/ Head(s) \notin DOMAIN DigitValue THEN <<>>
  ELSE <<Head(s)>> \o DigitPrefix(Tail(s))

RECURSIVE DecimalValue(_)
DecimalValue(d) ==
  IF d = <<>> THEN 0
  ELSE 10 * DecimalValue(SubSeq(d, 1, Len(d) - 1)) + DigitValue[d[Len(d)]]

\* parseInt(string), lines 28 and 43: leading blanks are skipped, a sign is
\* read, then as many decimal digits as there are; what follows them is
\* ignored, and without a digit the result is NaN.  (No string of the model
\* starts with the radix prefix 0x.)
ParseInt(s) ==
  LET t == SkipSpaces(s)
      signed == t # <<>> /\ Head(t) \in {"-", "+"}
      d == DigitPrefix(IF signed THEN Tail(t) ELSE t)
  IN IF d = <<>> THEN [isNaN |-> TRUE, value |-> 0]
     ELSE [isNaN |-> FALSE,
           value |-> IF signed /\ Head(t) = "-" THEN 0 - DecimalValue(d)
                     ELSE DecimalValue(d)]

\* the strings given as arguments and as WORKERS
ArgStrings ==
  { <<"1">>, <<"3">>, <<"2", "0">>, <<"2", "1">>, <<"0">>, <<"-", "3">>,
    <<"a">>, <<"3", "x">>, <<"2", ".", "5">>, <<" ", "4">> }
WorkersStrings == { <<>>, <<"3">>, <<"0">>, <<"a">>, <<"2", "5">> }

\* lines 22-44: the arguments left after the flags are removed
CliParse ==
  /\ cli.at = "parse"
  /\ LET args == cli.args
         parsedWorkers == IF Len(args) = 1 THEN ParseInt(args[1]) ELSE ParseInt(<<>>)
         fromEnv == ParseInt(cli.WORKERS)
     IN IF \/ Len(args) > 1
           \/ /\ Len(args) = 1
              /\ \/ parsedWorkers.isNaN
                 \/ parsedWorkers.value < 1
                 \/ parsedWorkers.value > MaxWorkers
        THEN cli' = [cli EXCEPT !.at = "exited", !.exitCode = 1]
        ELSE cli' = [cli EXCEPT
                       !.at = "releaseAll",
                       !.numWorkers =
                          IF Len(args) = 1 THEN parsedWorkers.value
                          ELSE IF cli.WORKERS # <<>>
                               THEN IF fromEnv.isNaN \/ fromEnv.value = 0
                                    THEN DefaultWorkers
                                    ELSE fromEnv.value
                               ELSE DefaultWorkers]
  /\ UNCHANGED <<games, lastCall, rlVars, singleProcess, supPc, supExit, pc,
                 gamesToScrape, idx, err, exit, attempts, held, nReleaseAll, failed,
                 credentials, authFailed, limiters, opLog>>

\* lines 48-57: the global cleanup, whose failure is logged and ignored
CliReleaseAll ==
  /\ cli.at = "releaseAll"
  /\ cli' = [cli EXCEPT !.at = "start", !.released = @ + 1]
  /\ UNCHANGED <<games, lastCall, rlVars, singleProcess, supPc, supExit, pc,
                 gamesToScrape, idx, err, exit, attempts, held, nReleaseAll, failed,
                 credentials, authFailed, limiters, opLog>>

\* lines 62-65 and 76-105: one pass of the loop for (i = 1; i <= numWorkers; i++)
CliStartWorker ==
  /\ cli.at = "start"
  /\ cli.started + 1 <= cli.numWorkers
  /\ cli' = [cli EXCEPT !.started = @ + 1]
  /\ UNCHANGED <<games, lastCall, rlVars, singleProcess, supPc, supExit, pc,
                 gamesToScrape, idx, err, exit, attempts, held, nReleaseAll, failed,
                 credentials, authFailed, limiters, opLog>>

\* the loop ends and Promise.all is awaited (lines 67 and 108)
CliAllStarted ==
  /\ cli.at = "start"
  /\ ~(cli.started + 1 <= cli.numWorkers)
  /\ cli' = [cli EXCEPT !.at = "wait"]
  /\ UNCHANGED <<games, lastCall, rlVars, singleProcess, supPc, supExit, pc,
                 gamesToScrape, idx, err, exit, attempts, held, nReleaseAll, failed,
                 credentials, authFailed, limiters, opLog>>

InitCLI ==
  /\ games = <<>>
  /\ lastCall = NoCall
  /\ credentials = TRUE
  /\ SysInit
  /\ singleProcess = FALSE
  /\ \E n \in 0..2 :
       \E args \in [1..n -> ArgStrings], workers \in WorkersStrings :
         cli = Cmd(args, workers)

NextCLI ==
  \/ CliParse
  \/ CliReleaseAll
  \/ CliStartWorker
  \/ CliAllStarted

SpecCLI == InitCLI /\ [][NextCLI]_vars

(***************************************************************************)
(* Properties.                                                             *)
(***************************************************************************)
Leased(gs) == {i \in DOMAIN gs : gs[i].processingBy # NULL}
LeasedBy(gs, w) == {i \in DOMAIN gs : gs[i].processingBy = w}
PendingIds(gs) == {i \in DOMAIN gs : NeedsDetails(gs[i])}
SamePayload(g, h) ==
  g.weight = h.weight /\ g.cats = h.cats /\ g.mechs = h.mechs /\ g.fams = h.fams

\* C1 (Spec): two claimGamesForProcessing calls of different workers that run
\* concurrently return disjoint sets: when a worker's claim commits and
\* returns its rows, none of them is a row that another worker's claim has
\* returned and still holds.
C1_ConcurrentClaimsDisjoint ==
  [][\A w \in Workers :
       (pc[w] = "claimTx" /\ pc'[w] = "process")
         => \A v \in Workers \ {w} : SeqToSet(gamesToScrape'[w]) \cap held[v] = {}]_vars

\* C2 (Spec): at every instant no game is in the claimed-and-not-yet-released
\* set of two different workers.
C2_MutualExclusion ==
  \A i \in Ids : Cardinality({w \in Workers : i \in held[w]}) <= 1

\* C3 (SpecRepo): from a table without leases and with P pending games, a
\* single claimGamesForProcessing(w, n), n >= 1, returns exactly min(n, P)
\* distinct games, each unleased before the call and leased to w after it.
C3_ClaimFromCleanState ==
  [][(lastCall'.op = "claimGamesForProcessing" /\ Leased(games) = {})
       => LET ret == lastCall'.ret
              w == lastCall'.workerId
              n == lastCall'.batchSize
              P == Cardinality(PendingIds(games))
          IN /\ Len(ret) = Min(n, P)
             /\ Cardinality(SeqToSet(ret)) = Len(ret)
             /\ \A i \in SeqToSet(ret) :
                  /\ games[i].processingBy = NULL
                  /\ games'[i].processingBy = w]_vars

\* C3 witness: a claim from a clean table that returned a full batch of two
\* and left a third pending game unclaimed (n < P)
C3_Witness ==
  /\ lastCall.op = "claimGamesForProcessing"
  /\ lastCall.batchSize = 2
  /\ Len(lastCall.ret) = 2
  /\ Leased(games) = SeqToSet(lastCall.ret)
  /\ LeasedBy(games, lastCall.workerId) = SeqToSet(lastCall.ret)
  /\ PendingIds(games) \ Leased(games) # {}

\* C4 (SpecE2E): when every worker has terminated in a run in which nothing
\* failed, every game has been processed at most once, no game is pending
\* any more (so each pending game was processed exactly once) and no game
\* is leased.
C4_EachItemOnce ==
  (\A w \in Workers : pc[w] = "exited")
    => \A i \in Ids :
         /\ attempts[i] <= 1
         /\ ~NeedsDetails(games[i])
         /\ games[i].processingBy = NULL

\* C5 (SpecRepo): a worker claims k games and dies without cleanup (no call
\* follows its claim); the games are leased to it; releaseAllClaimedGames
\* then clears every lease and nothing else, returns the number of leases
\* there were (k when the worker's were the only ones), and every claimed
\* game that is still pending is returned by a following claim.
C5_CrashRecovery ==
  [][(lastCall.op = "claimGamesForProcessing"
        /\ lastCall'.op = "releaseAllClaimedGames")
       => LET claimed == SeqToSet(lastCall.ret)
              w == lastCall.workerId
          IN /\ \A i \in claimed : games[i].processingBy = w
             /\ \A i \in DOMAIN games' :
                  /\ games'[i].processingBy = NULL
                  /\ games'[i].processingAt = NULL
                  /\ SamePayload(games'[i], games[i])
             /\ DOMAIN games' = DOMAIN games
             /\ lastCall'.ret[1] = Cardinality(Leased(games))
             /\ (Leased(games) = claimed => lastCall'.ret[1] = Len(lastCall.ret))
             /\ \A i \in claimed :
                  NeedsDetails(games'[i])
                    => i \in SeqToSet(ClaimReturn(games', Cardinality(DOMAIN games')))]_vars

\* C5 witness: releaseAllClaimedGames ran right after a claim and cleared
\* two leases
C5_Witness ==
  /\ lastCall.op = "releaseAllClaimedGames"
  /\ lastCall.afterClaim
  /\ lastCall.ret[1] = 2
  /\ Leased(games) = {}
  /\ Cardinality(PendingIds(games)) >= 2

\* C6 (SpecRepo): a game whose payload satisfies the completeness predicate
\* never becomes pending again, whatever GameRepository call follows.
C6_CompleteStaysComplete ==
  [][\A i \in DOMAIN games : ~NeedsDetails(games[i]) => ~NeedsDetails(games'[i])]_vars

\* C7 (Spec): once a worker has exited (by itself, not killed), no game has
\* processingBy equal to its id.
C7_NoLeaseAfterExit ==
  \A w \in Workers : pc[w] = "exited" => LeasedBy(games, w) = {}

InLoop == {"claim", "claimTx", "process"}

C9_FailureIsolated ==
  [][\A w \in Workers :
       (pc[w] = "process" /\ failed'[w] /\ idx'[w] # idx[w]
          /\ pc'[w] \notin {"crashed", "killed"})
         => /\ IF idx[w] < Len(gamesToScrape[w])
               THEN /\ pc'[w] = "process"
                    /\ idx'[w] = idx[w] + 1
                    /\ gamesToScrape'[w] = gamesToScrape[w]
               ELSE pc'[w] = "claim"
            /\ ~err'[w]
            /\ exit'[w] = "none"]_vars

\* C9 witness: after a failure in its batch a worker is at the next game of
\* the same batch
C9_Witness ==
  \E w \in Workers :
    /\ failed[w]
    /\ pc[w] = "process"
    /\ idx[w] >= 2
    /\ attempts[gamesToScrape[w][1]] >= 1

\* C10 (Spec): once the launcher is past its global cleanup, exactly one
\* releaseAllClaimedGames call has been made in the run, at every later
\* instant: it ran once before any worker started and never again.
C10_ReleaseAllOnce ==
  supPc # "releaseAll" => nReleaseAll = 1

\* C11 (Spec): runParallelScrapers reports its outcome only after every worker
\* has finished (so no worker is still running, and none was cut off by the
\* launcher's exit), and the outcome is success when every worker succeeded
\* and failure when some worker failed.
C11_OutcomeAfterAllWorkers ==
  /\ supPc = "done" => \A w \in Workers : pc[w] \in {"exited", "crashed"}
  /\ supExit = "ok" => \A w \in Workers : exit[w] = "ok"
  /\ supExit = "fail" => \E w \in Workers : exit[w] = "fail"

\* C12 (SpecRL): operations start in the order of their throttle calls and
\* their promises settle in that order: the k-th operation started and the
\* k-th promise settled both belong to the k-th throttle call.
C12_SubmissionOrder ==
  /\ \A k \in 1..Len(dispatched) : dispatched[k].op = k
  /\ \A k \in 1..Len(settled) : settled[k].op = k

\* C12 witness: three operations have settled; the second was submitted
\* after the first had started, the third later still and before the second
\* was started
C12_Witness ==
  /\ Len(settled) >= 3
  /\ submitted[2] > dispatched[1].at
  /\ submitted[3] > submitted[2]
  /\ submitted[3] < dispatched[2].at


\* processQueue invocations that have not returned, and those among them
\* that are awaiting a started operation
ActiveLoops == {l \in 1..MaxOps : loops[l].at # "none"}
Executing == {l \in ActiveLoops : loops[l].at = "task"}

\* C13 (SpecRL): at every instant at most one processQueue loop is active
\* and at most one submitted operation is executing.
C13_OneAtATime ==
  /\ Cardinality(ActiveLoops) <= 1
  /\ Cardinality(Executing) <= 1

\* C13 witness: the dispatcher had gone idle and was started again by a later
\* throttle call; its operation is executing while another one, submitted
\* meanwhile, waits in the queue
C13_Witness ==
  \E l \in 2..MaxOps :
    /\ loops[l].at = "task"
    /\ queue # <<>>
    /\ settled # <<>>


\* C14 (SpecRL): any two consecutive dispatch times differ by at least
\* minDelay, whatever the operations' durations and submission times.
C14_MinGap ==
  \A k \in 2..Len(dispatched) :
    dispatched[k].at - dispatched[k - 1].at >= MinDelay

\* C14 witness: three operations submitted back to back have been
\* dispatched, at three different times
C14_Witness ==
  /\ Len(dispatched) >= 3
  /\ submitted[1] = submitted[2]
  /\ submitted[2] = submitted[3]
  /\ dispatched[1].at < dispatched[2].at
  /\ dispatched[2].at < dispatched[3].at


\* C15 (SpecRL): an operation that fails rejects its own promise and nothing
\* else: every settled promise carries its own operation's outcome, and the
\* dispatcher survives, that is, a loop is active whenever operations are
\* queued and the running flag is set exactly while a loop is active.
C15_FailureStaysLocal ==
  /\ \A k \in 1..Len(settled) :
       settled[k].future = IF settled[k].outcome = "ok" THEN "resolved" ELSE "rejected"
  /\ queue # <<>> => ActiveLoops # {}
  /\ running <=> ActiveLoops # {}

\* C15 witness: the first operation failed and its promise was rejected; the
\* second, queued behind it before it ended, was dispatched and succeeded
C15_Witness ==
  /\ Len(settled) >= 2
  /\ settled[1].outcome = "error"
  /\ settled[1].future = "rejected"
  /\ submitted[2] <= dispatched[1].at
  /\ settled[2].outcome = "ok"
  /\ settled[2].future = "resolved"


\* C16 (SpecRepo): in every reachable state every game has processingBy null
\* exactly when it has processingAt null.
C16_LeaseAllOrNothing ==
  \A i \in DOMAIN games :
    games[i].processingBy = NULL <=> games[i].processingAt = NULL

\* C16 witness: after claims of both workers and a release of one of them,
\* one game is leased and another one is unleased again
C16_Witness ==
  /\ lastCall.op = "releaseClaimedGames"
  /\ lastCall.afterClaim
  /\ \E i \in DOMAIN games : games[i].processingBy # NULL /\ games[i].processingAt # NULL
  /\ \E i \in DOMAIN games : games[i].processingBy = NULL /\ games[i].processingAt = NULL


\* C17 (SpecRepo): releaseClaimedGames(w) sets processingBy and processingAt
\* to null on exactly the games whose processingBy is w; the lease columns of
\* every other game and the payload of every game are unchanged.
C17_ReleaseFrame ==
  [][lastCall'.op = "releaseClaimedGames"
       => /\ DOMAIN games' = DOMAIN games
          /\ \A i \in DOMAIN games :
               /\ SamePayload(games'[i], games[i])
               /\ IF games[i].processingBy = lastCall'.workerId
                  THEN /\ games'[i].processingBy = NULL
                       /\ games'[i].processingAt = NULL
                  ELSE /\ games'[i].processingBy = games[i].processingBy
                       /\ games'[i].processingAt = games[i].processingAt]_vars

\* C17 witness: a release that came right after a claim has unleased game 1
\* (still pending, so that claim had leased it) while a game of the other
\* worker is still leased
C17_Witness ==
  /\ lastCall.op = "releaseClaimedGames"
  /\ lastCall.afterClaim
  /\ 1 \in DOMAIN games
  /\ AvailableWhere(games[1])
  /\ \E j \in DOMAIN games : games[j].processingBy \notin {NULL, lastCall.workerId}


\* C18 (SpecRepo): releaseClaimedGames(w) called while w holds no lease
\* leaves the table as it is, and called right after another
\* releaseClaimedGames(w) it leaves the table as the first call left it.
C18_ReleaseIdempotent ==
  [][lastCall'.op = "releaseClaimedGames"
       => /\ LeasedBy(games, lastCall'.workerId) = {} => games' = games
          /\ (lastCall.op = "releaseClaimedGames"
                /\ lastCall.workerId = lastCall'.workerId) => games' = games]_vars

\* C18 witness: a claim, a release that unleased game 1, and the same release
\* once more; a game of the other worker is still leased
C18_Witness ==
  /\ lastCall.op = "releaseClaimedGames"
  /\ lastCall.afterRelease
  /\ 1 \in DOMAIN games
  /\ AvailableWhere(games[1])
  /\ LeasedBy(games, lastCall.workerId) = {}
  /\ Leased(games) # {}


\* C19 (SpecRepo): releaseAllClaimedGames() leaves no game leased, whoever
\* held the leases, returns the number of games that were leased just before
\* the call, and leaves every payload unchanged.
C19_ReleaseAll ==
  [][lastCall'.op = "releaseAllClaimedGames"
       => /\ DOMAIN games' = DOMAIN games
          /\ \A i \in DOMAIN games :
               /\ games'[i].processingBy = NULL
               /\ games'[i].processingAt = NULL
               /\ SamePayload(games'[i], games[i])
          /\ lastCall'.ret = <<Cardinality(Leased(games))>>]_vars

\* C19 witness: a sweep that followed a claim has cleared at least two
\* leases, in a table that also holds a complete game
C19_Witness ==
  /\ lastCall.op = "releaseAllClaimedGames"
  /\ lastCall.afterClaim
  /\ lastCall.ret[1] >= 2
  /\ Leased(games) = {}
  /\ \E i \in DOMAIN games : ~NeedsDetails(games[i])


\* C20 (Spec): the query of claimGamesForProcessing comes back empty exactly
\* when no game is both pending and unleased at that moment: a worker that
\* goes on with a batch had such a game to take, and when a worker leaves its
\* loop because the claim was empty, every game still pending is leased.
C20_EmptyClaim ==
  [][\A w \in Workers :
       /\ (pc[w] = "claim" /\ pc'[w] = "claimTx")
            => PendingIds(games) \ Leased(games) # {}
       /\ (pc[w] = "claim" /\ pc'[w] = "cleanup" /\ ~err'[w])
            => /\ PendingIds(games) \subseteq Leased(games)
               /\ PendingIds(games') \subseteq Leased(games')]_vars

\* C20 witness: a worker has left its loop on an empty claim while a pending
\* game is leased to the other worker
C20_Witness ==
  \E w \in Workers :
    /\ pc[w] = "cleanup"
    /\ ~err[w]
    /\ PendingIds(games) \subseteq Leased(games)
    /\ \E i \in PendingIds(games) : games[i].processingBy \notin {NULL, w}


\* C21 (SpecRepo): claimGamesForProcessing(w, n) returns the n games with the
\* lowest ids among those pending and unleased, or all of them when there
\* are fewer than n, in ascending order of id.
C21_LowestIdsAscending ==
  [][lastCall'.op = "claimGamesForProcessing"
       => LET ret == lastCall'.ret
              free == PendingIds(games) \ Leased(games)
          IN /\ Len(ret) = Min(lastCall'.batchSize, Cardinality(free))
             /\ \A k \in 1..Len(ret) : ret[k] \in free
             /\ \A k \in 1..(Len(ret) - 1) : ret[k] < ret[k + 1]
             /\ \A i \in free \ SeqToSet(ret) : \A k \in 1..Len(ret) : ret[k] < i]_vars

\* C21 witness: a claim that could not take game 1 returned a later game and
\* left a pending game with a higher id unleased
C21_Witness ==
  /\ lastCall.op = "claimGamesForProcessing"
  /\ Len(lastCall.ret) >= 1
  /\ lastCall.ret[1] > 1
  /\ \E i \in PendingIds(games) \ Leased(games) : i > lastCall.ret[Len(lastCall.ret)]


\* C22 (SpecAuth): a worker that met the missing-credentials error while
\* processing a game has stopped claiming and processing: it is in its
\* cleanup or has ended, and when it has ended its outcome is a failure.
C22_AuthFailureIsFatal ==
  \A w \in Workers :
    authFailed[w] = "item"
      => /\ pc[w] \in {"cleanup", "exited", "crashed", "killed"}
         /\ pc[w] = "exited" => exit[w] = "fail"


\* C24 (SpecAuth): missing credentials alone never abort a worker's
\* start-up: in no reachable state has a worker met the missing-credentials
\* error in initializeScraper, so a start-up that fails has failed in the
\* connection, the browser launch or a login made with credentials.
C24_MissingCredentialsNotFatal ==
  \A w \in Workers : authFailed[w] # "startup"

\* C24 witness: without credentials a worker has started, claimed a batch and
\* is processing it
C24_Witness ==
  /\ ~credentials
  /\ \E w \in Workers : pc[w] = "process" /\ LeasedBy(games, w) # {}


\* C23 (Spec): when the store fails in a claimGamesForProcessing call the
\* worker leaves its loop for the cleanup, and a worker that goes through
\* the cleanup with that error ends with a failure outcome, so the launcher
\* does not report success.
C23_StoreFailureEndsWorker ==
  [][/\ \A w \in Workers :
          /\ (pc[w] \in {"claim", "claimTx"} /\ err'[w]) => pc'[w] = "cleanup"
          /\ (pc[w] = "cleanup" /\ err[w] /\ pc'[w] = "exited") => exit'[w] = "fail"
     /\ supExit' = "ok" => \A w \in Workers : exit'[w] = "ok"]_vars

\* C23 witness: a worker that had processed a game ended with a failure and
\* with its leases released, while the other worker had not yet started its
\* loop: its claim failed and the cleanup ran
C23_Witness ==
  \E w \in Workers, v \in Workers :
    /\ pc[w] = "exited"
    /\ exit[w] = "fail"
    /\ pc[v] \in {"main", "init"}
    /\ \E i \in Ids : attempts[i] >= 1
    /\ Leased(games) = {}


\* a string that is a decimal number in the range 1..20
IsWorkerCount(s) ==
  /\ s # <<>>
  /\ DigitPrefix(s) = s
  /\ DecimalValue(s) \in 1..MaxWorkers

\* C25 (SpecCLI): a worker-count argument that is not a number in 1..20
\* makes the launcher exit with a non-zero status before any
\* releaseAllClaimedGames call and before any worker is started, and an
\* argument that is such a number k has started exactly k workers when the
\* launcher waits for them.
C25_WorkerCountArgument ==
  Len(cli.args) = 1 =>
    IF IsWorkerCount(cli.args[1])
    THEN cli.at = "wait" => cli.started = DecimalValue(cli.args[1])
    ELSE cli.at # "parse"
           => /\ cli.at = "exited"
              /\ cli.exitCode # 0
              /\ cli.released = 0
              /\ cli.started = 0


\* C26 (Spec): a lease never changes owner on its own: whenever a step
\* changes the processingBy of a leased game, it sets it to null (a release);
\* in particular no claim of any worker hands the game to another owner.
C26_LeaseKeepsOwner ==
  [][\A i \in Ids :
       (games[i].processingBy # NULL /\ games'[i].processingBy # games[i].processingBy)
         => games'[i].processingBy = NULL]_vars


\* C27 (Spec): whenever a worker is at the extraction or persistence of a
\* game of its batch, that game's processingBy is that worker's id.
C27_LeaseHeldWhileProcessing ==
  \A w \in Workers :
    pc[w] = "process" => games[gamesToScrape[w][idx[w]]].processingBy = w


\* C28 (SpecRepo): only claimGamesForProcessing, releaseClaimedGames and
\* releaseAllClaimedGames change lease columns: a call that changes the
\* processingBy or processingAt of an existing game is one of these three,
\* and a game that a call adds to the table has both columns null.
C28_OnlyLeaseOpsTouchLeases ==
  [][/\ \A i \in DOMAIN games :
          (games'[i].processingBy # games[i].processingBy
             \/ games'[i].processingAt # games[i].processingAt)
            => lastCall'.op \in {"claimGamesForProcessing", "releaseClaimedGames",
                                 "releaseAllClaimedGames"}
     /\ \A i \in DOMAIN games' \ DOMAIN games :
          games'[i].processingBy = NULL /\ games'[i].processingAt = NULL]_vars

\* C28 witness: right after a claim, updateGameWithAllDetails has completed a
\* game that is still leased
C28_Witness ==
  /\ lastCall.op = "updateGameWithAllDetails"
  /\ lastCall.afterClaim
  /\ \E i \in DOMAIN games : games[i].processingBy # NULL /\ ~NeedsDetails(games[i])


\* C29 (Spec): a claim never leases or returns a complete game and touches
\* no lease but those of the games it returns: at the step that makes
\* worker w the owner of its batch every game of the batch is pending, and
\* the lease columns of every other game stay as they are.
C29_ClaimsOnlyPending ==
  [][\A w \in Workers :
       (pc[w] = "claimTx" /\ pc'[w] = "process")
         => \A i \in Ids :
              IF i \in SeqToSet(gamesToScrape'[w])
              THEN /\ NeedsDetails(games[i])
                   /\ games'[i].processingBy = w
              ELSE /\ games'[i].processingBy = games[i].processingBy
                   /\ games'[i].processingAt = games[i].processingAt]_vars


\* C30 (Spec): a worker enters its claim loop only from the
\* releaseClaimedGames call of line 218, and when it enters no game is
\* leased under its id any more: every game that carried its id has
\* processingBy null.
C30_ReleaseBeforeFirstClaim ==
  [][\A w \in Workers :
       (pc'[w] = "claim" /\ pc[w] \notin InLoop)
         => /\ pc[w] = "release0"
            /\ LeasedBy(games', w) = {}
            /\ \A i \in LeasedBy(games, w) : games'[i].processingBy = NULL]_vars

\* C30 witness: in one process, with nothing processed yet, the other worker
\* has ended on an empty claim although games are pending, so they were all
\* leased, under this worker's id, by an earlier run; this worker is now at
\* its first claim and no game is leased
C30_Witness ==
  \E w \in Workers, v \in Workers :
    /\ singleProcess
    /\ pc[v] = "exited"
    /\ exit[v] = "ok"
    /\ \A i \in Ids : attempts[i] = 0
    /\ pc[w] = "claim"
    /\ held[w] = {}
    /\ PendingIds(games) # {}
    /\ Leased(games) = {}


DispatchedOps == {dispatched[k].op : k \in 1..Len(dispatched)}
SettledOps == {settled[k].op : k \in 1..Len(settled)}

\* C31 (SpecRLFair): no operation is dispatched or settled twice, none that
\* was not passed to throttle is dispatched, and, provided each operation
\* ends, the limiter comes to rest with every operation passed to throttle
\* dispatched and settled, its queue empty and its dispatcher idle, at
\* whatever moments the throttle calls were made.
C31_EveryOperationServed ==
  /\ [](/\ Cardinality(DispatchedOps) = Len(dispatched)
        /\ Cardinality(SettledOps) = Len(settled)
        /\ DispatchedOps \subseteq 1..Len(submitted)
        /\ SettledOps \subseteq DispatchedOps)
  /\ <>[](/\ DispatchedOps = 1..Len(submitted)
          /\ SettledOps = 1..Len(submitted)
          /\ queue = <<>>
          /\ running = FALSE
          /\ ActiveLoops = {})

\* C31 witness: an operation was submitted between the end of the previous
\* operation and the dispatcher's return to its while test, which is the
\* last moment before the dispatcher would go idle
C31_Witness ==
  \E l \in 1..MaxOps :
    /\ loops[l].at = "resume"
    /\ settled # <<>>
    /\ Len(queue) = 1
    /\ queue[1] = Len(settled) + 1
    /\ submitted[queue[1]] >= dispatched[Len(settled)].at


\* the time at which the dispatcher turns to operation k: when it was
\* submitted or, if it had to queue, when operation k - 1 ended
ReadyAt(k) == Max(submitted[k], settled[k - 1].at)
Duration(k) == settled[k].at - dispatched[k].at
Gap(k) == dispatched[k].at - dispatched[k - 1].at

\* C32 (SpecRLTimed): operation k is dispatched max(0, delay - (now -
\* lastDispatchTime)) after the dispatcher turns to it, with delay between
\* minDelay and maxDelay and lastDispatchTime the start of operation k - 1.
\* If operation k - 1 ran for maxDelay or longer, operation k is dispatched
\* with no wait; if operation k was queued when operation k - 1 ended, the
\* gap between the two dispatches is at most the larger of maxDelay and the
\* duration of operation k - 1; the first operation is dispatched at once.
C32_WaitTime ==
  /\ dispatched # <<>> => dispatched[1].at = submitted[1]
  /\ \A k \in 2..Len(dispatched) :
       /\ \E delay \in MinDelay..MaxDelay :
            dispatched[k].at - ReadyAt(k) =
              Max(0, delay - (ReadyAt(k) - dispatched[k - 1].at))
       /\ Duration(k - 1) >= MaxDelay => dispatched[k].at = ReadyAt(k)
       /\ submitted[k] <= settled[k - 1].at =>
            Gap(k) <= Max(MaxDelay, Duration(k - 1))

\* C32 witness: three dispatches; the first operation was short and the
\* second, queued behind it, waited for the rest of its delay; the second
\* ran for maxDelay or longer and the third, queued behind it, was
\* dispatched the moment it ended
C32_Witness ==
  /\ Len(dispatched) >= 3
  /\ submitted[2] <= settled[1].at
  /\ Duration(1) < MinDelay
  /\ dispatched[2].at > settled[1].at
  /\ submitted[3] <= settled[2].at
  /\ Duration(2) >= MaxDelay
  /\ dispatched[3].at = settled[2].at


\* the games of its current batch that worker w has handed to throttle
NumSubmitted(w) == IF pc[w] = "process" THEN idx[w] - 1 ELSE idx[w]
InBatch == {"process", "await", "resolved", "rejected"}
Processing(m) == {l \in limiters[m].loops : l.at = "task"}

\* C33 (SpecWL): a worker hands the games of a batch to its RateLimiter one
\* at a time, in the ascending order of ids in which the claim returned
\* them, and each one only after the promise of the one before has settled;
\* so at most one game per worker is being processed and the queue of the
\* worker's limiter never holds more than one operation.
C33_OneItemAtATime ==
  \A w \in Workers :
    LET sub == opLog[w].sub
        done == opLog[w].done
    IN /\ Len(sub) - Len(done) \in {0, 1}
       /\ done = SubSeq(sub, 1, Len(done))
       /\ pc[w] = "process" => Len(sub) = Len(done)
       /\ pc[w] \in InBatch =>
            /\ \A i, j \in 1..Len(gamesToScrape[w]) :
                 i < j => gamesToScrape[w][i] < gamesToScrape[w][j]
            /\ NumSubmitted(w) <= Len(sub)
            /\ SubSeq(sub, Len(sub) - NumSubmitted(w) + 1, Len(sub)) =
                 SubSeq(gamesToScrape[w], 1, NumSubmitted(w))
       /\ Len(limiters[LimiterOf(w)].queue) <= 1
       /\ Cardinality(Processing(LimiterOf(w))) <= 1
       /\ Cardinality(limiters[LimiterOf(w)].loops) <= 1

\* C33 witness: a worker is through a batch of two games; the second one
\* sat in the queue of the limiter, behind a timer, while the worker was
\* awaiting its promise
C33_Witness ==
  \E w \in Workers :
    /\ pc[w] = "await"
    /\ idx[w] = 2
    /\ Len(opLog[w].done) = 1
    /\ Len(limiters[LimiterOf(w)].queue) = 1
    /\ \E l \in limiters[LimiterOf(w)].loops : l.at = "timer"


\* C34 (SpecWL): every worker has a RateLimiter of its own: the queue of a
\* worker's limiter holds and its dispatcher runs only operations of that
\* worker, its lastRequestTime moves only once that worker has submitted
\* an operation, and an operation that waits does so behind a timer or an
\* operation of its own worker's limiter.
C34_OwnLimiter ==
  \A m \in Workers :
    /\ \A k \in 1..Len(limiters[m].queue) : limiters[m].queue[k].worker = m
    /\ \A l \in Processing(m) : l.op.worker = m
    /\ limiters[m].lastRequestTime > 0 => opLog[m].sub # <<>>
    /\ Len(opLog[m].sub) > Len(opLog[m].done) =>
         \/ limiters[m].queue = <<[worker |-> m, game |-> gamesToScrape[m][idx[m]]]>>
         \/ Processing(m) =
              {[at |-> "task", wake |-> 0,
                op |-> [worker |-> m, game |-> gamesToScrape[m][idx[m]]]]}

\* C34 witness: operations of the two workers are executing at the same
\* instant, each dispatched at once by a limiter that had not been used
C34_Witness ==
  /\ \A m \in Workers :
       /\ Processing(m) # {}
       /\ limiters[m].lastRequestTime = now
       /\ Len(opLog[m].sub) = 1


\* C35 (SpecLive): when the calls of the store and of the extractor always
\* return, every worker reaches the end of scrapeGameDetails and stays
\* there, also when games fail on every attempt.
C35_WorkersTerminate == \A w \in Workers : <>[](pc[w] = "exited")

\* C35 witness: both workers are done and a game that failed on each of its
\* attempts, under both workers, is still without details
C35_Witness ==
  /\ \A w \in Workers : pc[w] = "exited"
  /\ \E i \in Ids :
       /\ attempts[i] = MaxAttempts
       /\ games[i] = Row(NULL, NULL, EmptyPayload)


\* C36 (Spec): within one run of a worker, a claim never returns to the
\* worker a game that an earlier claim returned to it, unless a
\* releaseAllClaimedGames call or a releaseClaimedGames call for the
\* worker's id was made in between.
C36_NoGameReturnedTwice ==
  [][\A w \in Workers :
       (pc[w] = "claimTx" /\ pc'[w] = "process")
         => SeqToSet(gamesToScrape'[w]) \cap held[w] = {}]_vars


\* C37 (SpecStale): when every worker of a run has ended without a fatal
\* failure, every game that was pending when the workers started has been
\* handed to the scrape at least once.  A game's details change only when
\* it is scraped, so this says that every game still pending at that point
\* has been attempted.
C37_EveryPendingAttempted ==
  (\A w \in Workers : pc[w] = "exited" /\ exit[w] = "ok")
    => \A i \in Ids : NeedsDetails(games[i]) => attempts[i] >= 1


\* C38 (SpecCLI): whether the worker count comes from the command line or
\* from WORKERS, the launcher that has started its workers and waits for
\* them has started between 1 and 20 of them.
C38_WorkerCountInRange ==
  cli.at = "wait" => cli.started \in 1..MaxWorkers



Started == {"init", "main"}

\* C39 (SpecStale): the launcher's releaseAllClaimedGames call, whether it
\* succeeds or fails, is followed by the start of the workers: the launcher
\* does not end on it, and its next step starts every worker; a failed call
\* leaves the table as it was, leases of a previous run included.
C39_ReleaseAllFailureNotFatal ==
  [][/\ supPc = "releaseAll"
          => /\ supPc' = "spawn"
             /\ supExit' = "none"
             /\ games' \in {games, ReleaseAllTable(games)}
     /\ supPc = "spawn"
          => /\ supPc' = "wait"
             /\ \A w \in Workers : pc'[w] \in Started]_vars

\* C39 witness: every worker has been started, none has made a store call
\* yet, the launcher made its releaseAllClaimedGames call, and a game is
\* still leased to a worker of the previous run
C39_Witness ==
  /\ supPc = "wait"
  /\ nReleaseAll = 1
  /\ \A w \in Workers : pc[w] \in Started
  /\ \E i \in Ids : games[i].processingBy = FormerWorker

=============================================================================
